---- MODULE Spec2Model ----
(***************************************************************************)
(* Model of tune-classification-model-hugging-face-transformers.py:        *)
(*   - the label tables id2label / label2id and the pandas UDF             *)
(*     replace_labels_with_ids (specification SpecLabels);                 *)
(*   - the MLflow wrapper TextClassificationPipelineModel: load_context    *)
(*     and predict, with the chunked execution of the transformers         *)
(*     pipeline it calls (specification Spec).                             *)
(***************************************************************************)
EXTENDS Integers, Sequences, FiniteSets, TLC

VARIABLES
    \* ---- label mapping (lines 92-109, 192)
    lpc,         \* position in the notebook: "loaded", "mapped", "encoded", "failed", "model"
    sms,         \* the label column of the DataFrame sms, one entry per row
    labels,      \* the collected rows of the groupBy (line 92)
    id2label,    \* line 93
    label2id,    \* line 94
    enc_in,      \* the pd.Series handed to replace_labels_with_ids
    enc,         \* what the UDF did with it: [status, ids]
    model_args,  \* the keyword arguments of from_pretrained (line 192)
    \* ---- scoring wrapper (lines 235-245)
    pc,          \* "created", "ready", "running", "returned", "raised"
    pipeline,    \* self.pipeline
    texts,       \* the list built at line 242
    pos,         \* number of texts the pipeline has consumed
    outputs,     \* the predictions the pipeline has produced so far
    result,      \* the labels of the returned pd.Series
    error,       \* the exception that left predict, "none" if none
    forwards,    \* model invocations during the current predict call
    calls        \* predict calls started since load_context

vars == <<lpc, sms, labels, id2label, label2id, enc_in, enc, model_args,
          pc, pipeline, texts, pos, outputs, result, error, forwards, calls>>

labelVars == <<lpc, sms, labels, id2label, label2id, enc_in, enc, model_args>>
scoreVars == <<pc, pipeline, texts, pos, outputs, result, error, forwards, calls>>

\* ------------------------------------------------------------------ bounds
MaxRows == 3      \* rows of the corpus, and entries of a series given to the UDF
MaxTexts == 9     \* texts of one predict call (more than one chunk of 8)
MaxSeqLen == 3    \* the tokenizer's model_max_length, in tokens
MaxCalls == 2     \* predict calls per loaded model

\* ------------------------------------------------------------------ helpers
Min(a, b) == IF a < b THEN a ELSE b

SeqsUpTo(S, n) == UNION {[1..k -> S] : k \in 0..n}

Range(f) == {f[x] : x \in DOMAIN f}

\* ================================================================= labels
LabelUniverse == {"ham", "spam", "promo"}

\* The distinct values of a column.
DistinctLabels(rows) == {rows[i] : i \in DOMAIN rows}

\* The orders in which collect() may return the rows of a set.
Orderings(S) ==
    {s \in [1..Cardinality(S) -> S] : \A i, j \in DOMAIN s : i # j => s[i] # s[j]}

\* select(label).collect(): one row per row of the DataFrame, no grouping.
SelectCollect(rows) == {rows}

\* line 92: sms.select(sms.label).groupBy(sms.label).count().collect():
\* one row per distinct label, in an order Spark does not fix.
GroupByCollect(rows) == Orderings(DistinctLabels(rows))

\* line 93: {index: row.label for (index, row) in enumerate(labels)}
Id2Label(ls) == [index \in 0..(Len(ls) - 1) |-> ls[index + 1]]

\* enumerate(labels, start=1)
Label2IdFromOne(ls) ==
    [l \in DistinctLabels(ls) |->
        CHOOSE index \in 1..Len(ls) :
            /\ ls[index] = l
            /\ \A j \in 1..Len(ls) : ls[j] = l => j <= index]

\* line 94: {row.label: index for (index, row) in enumerate(labels)}; a key
\* met again overwrites the earlier entry, so the last index wins.
Label2Id(ls) ==
    [l \in DistinctLabels(ls) |->
        CHOOSE index \in 0..(Len(ls) - 1) :
            /\ ls[index + 1] = l
            /\ \A j \in 0..(Len(ls) - 1) : ls[j + 1] = l => j <= index]

\* label2id.get(x, 0)
LookupOrDefault(l2i, x) ==
    IF x \in DOMAIN l2i THEN [ok |-> TRUE, id |-> l2i[x]] ELSE [ok |-> TRUE, id |-> 0]

\* line 107: label2id[x]; a missing key raises KeyError.
Lookup(l2i, x) ==
    IF x \in DOMAIN l2i THEN [ok |-> TRUE, id |-> l2i[x]] ELSE [ok |-> FALSE, id |-> -1]

\* lines 105-107: labels.apply(lambda x: label2id[x]) over a whole series.
ReplaceLabels(l2i, series) ==
    IF \A i \in DOMAIN series : Lookup(l2i, series[i]).ok
    THEN [status |-> "ok", ids |-> [i \in DOMAIN series |-> Lookup(l2i, series[i]).id]]
    ELSE [status |-> "KeyError", ids |-> <<>>]

\* line 192: num_labels=2
num_labels == 2

NoEnc == [status |-> "none", ids |-> <<>>]
NoArgs == [num_labels |-> 0, id2label |-> <<>>, label2id |-> <<>>]

\* ================================================================ scoring
\* line 243 (and line 264): batch_size=8
batch_size == 8

\* truncation=False
NoTruncation == FALSE

\* line 243: truncation=True
Truncation == TRUE

\* A text of the input column: a string (its words) or a non-string value.
Str(ws) == [str |-> TRUE, words |-> ws]
NonString == [str |-> FALSE, words |-> <<>>]

HamText == Str(<<"hi">>)
SpamText == Str(<<"win">>)
\* One word more than fits: MaxSeqLen + 1 tokens with [CLS] and [SEP].
LongText == Str([i \in 1..(MaxSeqLen - 1) |-> "hi"])

StrTexts == {HamText, SpamText, LongText}
TextUniverse == StrTexts \cup {NonString}

\* The tokenizer: [CLS] words [SEP]; with truncation the words are cut so that
\* the whole fits in maxlen tokens.
Tokenize(ws, truncation, maxlen) ==
    LET full == <<"[CLS]">> \o ws \o <<"[SEP]">>
    IN  IF truncation /\ Len(full) > maxlen
        THEN <<"[CLS]">> \o SubSeq(ws, 1, maxlen - 2) \o <<"[SEP]">>
        ELSE full

ModelInputs == {Tokenize(t.words, TRUE, MaxSeqLen) : t \in StrTexts}
ClassIds == 0..(num_labels - 1)
\* The fine-tuned classifier: its argmax class for each input it can be given.
Models == [ModelInputs -> ClassIds]

SmsLabels == {"ham", "spam"}

\* The pipelines the logged artifact can hold (lines 192, 264).
Artifacts ==
    {[model |-> m, id2label |-> Id2Label(ls), max_len |-> MaxSeqLen, batch_size |-> batch_size] :
        m \in Models, ls \in Orderings(SmsLabels)}

NoPipeline == [model |-> <<>>, id2label |-> <<>>, max_len |-> 0, batch_size |-> 0]

\* The inputs of a predict call: up to MaxTexts texts, all the same short text
\* but for at most one position, which holds any text of the universe.
Requests ==
    {<<>>} \cup
    {[k \in 1..n |-> IF k = i THEN x ELSE b] :
        n \in 1..MaxTexts, i \in 1..MaxTexts, x \in TextUniverse, b \in {HamText, SpamText}}

\* The pipeline's preprocess of one text (truncation=True, line 243): the
\* tokenizer raises ValueError on a value that is not a string.
Preprocess(p, t) ==
    IF t.str
    THEN [ok |-> TRUE, tokens |-> Tokenize(t.words, Truncation, p.max_len)]
    ELSE [ok |-> FALSE, tokens |-> <<>>]

\* The model accepts at most max_len positions.
Fits(p, tokens) == Len(tokens) <= p.max_len

\* The pipeline's postprocess: the argmax class, named through id2label.
Postprocess(p, c) == [label |-> p.id2label[c]]

\* A batch that is run even when no text is left.
HasNextChunkOrFirst(ts, n) == n < Len(ts) \/ n = 0

\* The pipeline iterates over the texts in batches while texts are left.
HasNextChunk(ts, n) == n < Len(ts)

\* The next batch: at most batch_size texts, in input order (line 243).
NextChunk(ts, n) == SubSeq(ts, n + 1, Min(n + batch_size, Len(ts)))

\* A batch whose predictions come back last text first.
RunChunkReversed(p, chunk) ==
    [i \in 1..Len(chunk) |->
        Postprocess(p, p.model[Preprocess(p, chunk[Len(chunk) + 1 - i]).tokens])]

\* One batch through the model: one prediction per text, in batch order.
RunChunk(p, chunk) ==
    [i \in 1..Len(chunk) |-> Postprocess(p, p.model[Preprocess(p, chunk[i]).tokens])]

\* line 244: [prediction['label'] for prediction in pipe]
LabelsOf(preds) == [i \in 1..Len(preds) |-> preds[i].label]

\* The whole pipeline call on well-formed texts with batches of bs.
RECURSIVE PipelineFrom(_, _, _, _)
PipelineFrom(p, ts, n, bs) ==
    IF n >= Len(ts) THEN <<>>
    ELSE RunChunk(p, SubSeq(ts, n + 1, Min(n + bs, Len(ts))))
            \o PipelineFrom(p, ts, n + bs, bs)

\* ----------------------------------------------------------- label actions
InitLabels ==
    /\ lpc = "loaded"
    /\ sms \in SeqsUpTo(LabelUniverse, MaxRows) \ {<<>>}
    /\ labels = <<>>
    /\ id2label = <<>>
    /\ label2id = <<>>
    /\ enc_in = <<>>
    /\ enc = NoEnc
    /\ model_args = NoArgs
    /\ pc = "created"
    /\ pipeline = NoPipeline
    /\ texts = <<>>
    /\ pos = 0
    /\ outputs = <<>>
    /\ result = <<>>
    /\ error = "none"
    /\ forwards = 0
    /\ calls = 0

\* lines 92-94
BuildLabelMaps ==
    /\ lpc = "loaded"
    /\ \E ls \in GroupByCollect(sms) :
        /\ labels' = ls
        /\ id2label' = Id2Label(ls)
        /\ label2id' = Label2Id(ls)
    /\ lpc' = "mapped"
    /\ UNCHANGED <<sms, enc_in, enc, model_args>>
    /\ UNCHANGED scoreVars

\* lines 105-109: the UDF applied to one series of labels.
ReplaceLabelsWithIds ==
    /\ lpc \in {"mapped", "encoded"}
    /\ \E series \in SeqsUpTo(LabelUniverse, MaxRows) :
        /\ enc_in' = series
        /\ enc' = ReplaceLabels(label2id, series)
        /\ lpc' = IF ReplaceLabels(label2id, series).status = "ok" THEN "encoded" ELSE "failed"
    /\ UNCHANGED <<sms, labels, id2label, label2id, model_args>>
    /\ UNCHANGED scoreVars

\* line 192
CreateModel ==
    /\ lpc = "encoded"
    /\ model_args' = [num_labels |-> num_labels, id2label |-> id2label, label2id |-> label2id]
    /\ lpc' = "model"
    /\ UNCHANGED <<sms, labels, id2label, label2id, enc_in, enc>>
    /\ UNCHANGED scoreVars

NextLabels == BuildLabelMaps \/ ReplaceLabelsWithIds \/ CreateModel

SpecLabels == InitLabels /\ [][NextLabels]_vars

\* --------------------------------------------------------- scoring actions
Init ==
    /\ lpc = "model"
    /\ sms = <<>>
    /\ labels = <<>>
    /\ id2label = <<>>
    /\ label2id = <<>>
    /\ enc_in = <<>>
    /\ enc = NoEnc
    /\ model_args = NoArgs
    /\ pc = "created"
    /\ pipeline = NoPipeline
    /\ texts = <<>>
    /\ pos = 0
    /\ outputs = <<>>
    /\ result = <<>>
    /\ error = "none"
    /\ forwards = 0
    /\ calls = 0

\* lines 237-239
LoadContext ==
    /\ pc = "created"
    /\ pipeline' \in Artifacts
    /\ pc' = "ready"
    /\ UNCHANGED <<texts, pos, outputs, result, error, forwards, calls>>
    /\ UNCHANGED labelVars

\* A predict that keeps the predictions of the call before it.
PredictCallStale ==
    /\ pc \in {"ready", "returned", "raised"}
    /\ calls < MaxCalls
    /\ texts' \in Requests
    /\ pos' = 0
    /\ outputs' = outputs
    /\ result' = <<>>
    /\ error' = "none"
    /\ forwards' = 0
    /\ calls' = calls + 1
    /\ pc' = "running"
    /\ UNCHANGED pipeline
    /\ UNCHANGED labelVars

\* lines 241-243: predict is entered and hands the texts to the pipeline.
PredictCall ==
    /\ pc \in {"ready", "returned", "raised"}
    /\ calls < MaxCalls
    /\ texts' \in Requests
    /\ pos' = 0
    /\ outputs' = <<>>
    /\ result' = <<>>
    /\ error' = "none"
    /\ forwards' = 0
    /\ calls' = calls + 1
    /\ pc' = "running"
    /\ UNCHANGED pipeline
    /\ UNCHANGED labelVars

\* Every text of the batch is tokenized.
ChunkOk(p, chunk) == \A i \in DOMAIN chunk : Preprocess(p, chunk[i]).ok

\* Every tokenized text of the batch fits the model.
ChunkFits(p, chunk) == \A i \in DOMAIN chunk : Fits(p, Preprocess(p, chunk[i]).tokens)

\* The exception of a failed model invocation.
ForwardError(p, chunk) == IF ChunkFits(p, chunk) THEN "RuntimeError" ELSE "IndexError"

\* line 243: the tokenizer rejects a text of the next batch; the exception
\* leaves predict.
ChunkRejected ==
    /\ pc = "running"
    /\ HasNextChunk(texts, pos)
    /\ ~ChunkOk(pipeline, NextChunk(texts, pos))
    /\ error' = "ValueError"
    /\ pc' = "raised"
    /\ UNCHANGED <<pipeline, texts, pos, outputs, result, forwards, calls>>
    /\ UNCHANGED labelVars

\* line 243: the next batch goes through the model and yields its predictions.
ChunkScored ==
    /\ pc = "running"
    /\ HasNextChunk(texts, pos)
    /\ ChunkOk(pipeline, NextChunk(texts, pos))
    /\ ChunkFits(pipeline, NextChunk(texts, pos))
    /\ forwards' = forwards + 1
    /\ outputs' = outputs \o RunChunk(pipeline, NextChunk(texts, pos))
    /\ pos' = Min(pos + batch_size, Len(texts))
    /\ UNCHANGED <<pc, pipeline, texts, result, error, calls>>
    /\ UNCHANGED labelVars

\* A failed batch that is skipped: the pipeline goes on with the next one.
ChunkModelRaisesSkipped ==
    /\ pc = "running"
    /\ HasNextChunk(texts, pos)
    /\ ChunkOk(pipeline, NextChunk(texts, pos))
    /\ ChunkFits(pipeline, NextChunk(texts, pos))
    /\ forwards' = forwards + 1
    /\ error' = "RuntimeError"
    /\ pos' = Min(pos + batch_size, Len(texts))
    /\ UNCHANGED <<pc, pipeline, texts, outputs, result, calls>>
    /\ UNCHANGED labelVars

\* line 243: the model invocation raises on the next batch: always on a batch
\* longer than the model's positions, and whenever the device fails (out of
\* memory, for one); predict has no handler, the exception leaves it.
ChunkModelRaises ==
    /\ pc = "running"
    /\ HasNextChunk(texts, pos)
    /\ ChunkOk(pipeline, NextChunk(texts, pos))
    /\ forwards' = forwards + 1
    /\ error' = ForwardError(pipeline, NextChunk(texts, pos))
    /\ pc' = "raised"
    /\ UNCHANGED <<pipeline, texts, pos, outputs, result, calls>>
    /\ UNCHANGED labelVars

\* lines 244-245: the labels of the predictions, returned as a pd.Series.
PredictReturn ==
    /\ pc = "running"
    /\ ~HasNextChunk(texts, pos)
    /\ result' = LabelsOf(outputs)
    /\ pc' = "returned"
    /\ UNCHANGED <<pipeline, texts, pos, outputs, error, forwards, calls>>
    /\ UNCHANGED labelVars

Next ==
    \/ LoadContext
    \/ PredictCall
    \/ ChunkRejected
    \/ ChunkScored
    \/ ChunkModelRaises
    \/ PredictReturn

Spec == Init /\ [][Next]_vars

\* ================================================================= claims

\* What the pipeline predicts for one text given alone.
PredictionFor(p, t) == LabelsOf(RunChunk(p, <<t>>))[1]

\* The batch sizes the whole-call operator is tried with.
BatchSizes == 1..(MaxTexts + 1)

\* C1: a predict call that returns gives exactly one label per input text, the
\* i-th label being the prediction for the i-th text, and the same labels
\* result from running the pipeline with any other batch size.
C1_LengthAndOrderPreserved ==
    pc = "returned" =>
        /\ Len(result) = Len(texts)
        /\ \A i \in 1..Len(texts) : result[i] = PredictionFor(pipeline, texts[i])
        /\ \A bs \in BatchSizes : LabelsOf(PipelineFrom(pipeline, texts, 0, bs)) = result

C1_Witness ==
    /\ pc = "returned"
    /\ Len(texts) > batch_size
    /\ \E i \in 1..batch_size : \E j \in (batch_size + 1)..Len(texts) : result[i] # result[j]
    /\ \E i \in 1..(batch_size - 1) : result[i] # result[i + 1]

\* C2: once the tables are built, id2label[label2id[s]] = s for every label s
\* of the table, and decoding the IDs the UDF returned for a series gives the
\* series back.
C2_EncodeDecodeIdentity ==
    lpc # "loaded" =>
        /\ \A s \in DOMAIN label2id :
            /\ label2id[s] \in DOMAIN id2label
            /\ id2label[label2id[s]] = s
        /\ enc.status = "ok" =>
            /\ Len(enc.ids) = Len(enc_in)
            /\ \A i \in 1..Len(enc_in) :
                /\ enc.ids[i] \in DOMAIN id2label
                /\ id2label[enc.ids[i]] = enc_in[i]

C2_Witness ==
    /\ lpc = "encoded"
    /\ enc.status = "ok"
    /\ Len(enc_in) >= 2
    /\ enc_in[1] # enc_in[2]

\* C3: the two tables built from a corpus with K distinct labels are inverses
\* of each other, their IDs are exactly 0..K-1, and the ID of a label is its
\* position in the enumeration.
C3_TablesInverseAndDense ==
    lpc # "loaded" =>
        LET K == Cardinality(DistinctLabels(sms))
        IN  /\ DOMAIN id2label = 0..(K - 1)
            /\ DOMAIN label2id = DistinctLabels(sms)
            /\ Range(label2id) = 0..(K - 1)
            /\ Range(id2label) = DistinctLabels(sms)
            /\ \A i \in DOMAIN id2label : label2id[id2label[i]] = i
            /\ \A s \in DOMAIN label2id : id2label[label2id[s]] = s
            /\ Len(labels) = K
            /\ \A i \in 1..Len(labels) : label2id[labels[i]] = i - 1

C3_Witness ==
    /\ lpc = "mapped"
    /\ Cardinality(DOMAIN label2id) >= 2
    /\ Len(sms) > Cardinality(DOMAIN label2id)

\* C4: the UDF applied to a series holding a label that is not in the table
\* raises KeyError and returns no IDs at all.
C4_UnknownLabelRaises ==
    (lpc \in {"encoded", "failed"} /\ \E i \in 1..Len(enc_in) : enc_in[i] \notin DOMAIN label2id) =>
        /\ enc.status = "KeyError"
        /\ enc.ids = <<>>
        /\ lpc = "failed"

C4_Witness ==
    /\ lpc = "failed"
    /\ enc.status = "KeyError"
    /\ \E i \in 1..Len(enc_in) : enc_in[i] \in DOMAIN label2id
    /\ \E i \in 1..Len(enc_in) : enc_in[i] \notin DOMAIN label2id

C6_RejectedBeforeModel ==
    (pc = "raised" /\ error = "ValueError") =>
        /\ forwards = 0
        /\ outputs = <<>>

\* C7: once the model invocation has raised, predict ends with the exception
\* and returns nothing; a call that returns has one label per text.
C7_ModelFailureSurfaces ==
    /\ error \in {"RuntimeError", "IndexError"} =>
        /\ pc = "raised"
        /\ result = <<>>
    /\ pc = "returned" =>
        /\ error = "none"
        /\ Len(result) = Len(texts)

C7_Witness ==
    /\ pc = "raised"
    /\ error = "RuntimeError"
    /\ forwards = 2
    /\ Len(outputs) = batch_size

\* C8: no predict call fails on account of the length of a text: a batch of
\* strings always fits the model after tokenization, the model never raises
\* for length, and a call that returns has one label for every text, the
\* over-length ones included.
C8_LongTextTruncated ==
    /\ error # "IndexError"
    /\ (pc = "running" /\ HasNextChunk(texts, pos) /\ ChunkOk(pipeline, NextChunk(texts, pos))) =>
        ChunkFits(pipeline, NextChunk(texts, pos))
    /\ pc = "returned" => Len(result) = Len(texts)

C8_Witness ==
    /\ pc = "returned"
    /\ \E i \in 1..Len(texts) : texts[i] = LongText
    /\ Len(result) = Len(texts)
    /\ Len(texts) > batch_size

\* C9: after load_context no step changes the pipeline (model, tokenizer
\* limit, label table, batch size); its batch size is the one of every call;
\* and what a call returns is determined by its own texts, whatever calls
\* came before.
C9_StatelessAcrossCalls ==
    /\ [][pc # "created" => pipeline' = pipeline]_vars
    /\ [](pc # "created" => pipeline.batch_size = batch_size)
    /\ [](pc = "returned" =>
            result = [i \in 1..Len(texts) |-> PredictionFor(pipeline, texts[i])])

C9_Witness ==
    /\ pc = "returned"
    /\ calls = MaxCalls
    /\ Len(texts) > batch_size

====
